---- MODULE Spec2Model ----
(***************************************************************************)
(* chonkie-inc/chunk: the language bindings of the byte-level chunker.     *)
(*                                                                         *)
(*   packages/wasm/src/lib.rs    Chunker, chunk_offsets, split_offsets,    *)
(*                               find_merge_indices, merge_splits          *)
(*   packages/python/src/lib.rs  Chunker, chunk_offsets, split_offsets,    *)
(*                               split_pattern_offsets, PatternSplitter    *)
(*                                                                         *)
(* Part I models the wasm merge planner merge_splits, whose whole body is  *)
(* in the binding.  Parts II and III model the chunker and the splitter    *)
(* surfaces of the bindings; the core crate they delegate to (OwnedChunker,*)
(* split_at_delimiters, split_at_patterns) is not among the source files    *)
(* and is modelled from the design document (sections 4.2 and 4.3).        *)
(***************************************************************************)
EXTENDS Integers, Sequences, FiniteSets, TLC

VARIABLES
    \* ---- Part I: merge_splits (wasm), its arguments and locals
    token_counts,      \* token_counts: &[usize]
    chunk_size,        \* chunk_size: usize
    combine_ws,        \* combine_whitespace.unwrap_or(false)
    cumulative,        \* cumulative: Vec<usize>
    result,            \* result: Vec<usize>, flat [end, tokens, end, tokens, ...]
    current_index,     \* current_index
    pc,                \* "call" | "loop" | "done" | "panic"
    \* ---- Part II: a Chunker object of either binding
    ctor,              \* the constructor call that built it (surface, arguments)
    inner,             \* Chunker.inner: OwnedChunker
    op,                \* the method called last
    ret,               \* what that call returned
    rewound,           \* history: some reset call found the cursor past 0
    \* ---- Part III: one call of a split surface
    split_call,        \* the surface called and its arguments
    split_ret          \* "pending" until the call returns, then its outcome

mergeVars == <<token_counts, chunk_size, combine_ws, cumulative, result,
               current_index, pc>>
chunkerVars == <<ctor, inner, op, ret, rewound>>
splitVars == <<split_call, split_ret>>

vars == <<mergeVars, chunkerVars, splitVars>>

\* Option<T>: None is the empty tuple, Some(x) the one-element tuple.
None == <<>>
Some(x) == <<x>>
UnwrapOr(o, d) == IF o = None THEN d ELSE o[1]

Min(a, b) == IF a <= b THEN a ELSE b

(***************************************************************************)
(* Part I.  merge_splits                                                   *)
(***************************************************************************)

\* Bounds of the explored inputs.
MaxSegs == 4        \* longest token_counts enumerated exhaustively
MaxTok == 2         \* largest single token count
MaxChunk == 3       \* largest chunk_size
MaxPairs == 2       \* pairs emitted beyond token_counts.len() before the model stops
                    \* following a call (only a chunk_size of 0 gets there)

\* The input of the documented example, merge_splits([1,1,1,1,1,1,1], 3, false).
DocTokenCounts == <<1, 1, 1, 1, 1, 1, 1>>
DocChunkSize == 3
DocResult == <<3, 3, 6, 3, 7, 1>>

RECURSIVE SeqsUpTo(_, _)
SeqsUpTo(S, n) ==
    IF n = 0 THEN {<<>>}
    ELSE LET shorter == SeqsUpTo(S, n - 1)
         IN  shorter \cup {Append(s, x) : s \in {t \in shorter : Len(t) = n - 1}, x \in S}

TokenSeqs == SeqsUpTo(0..MaxTok, MaxSegs) \cup {DocTokenCounts}

\* Mutant of BuildCumulative: the whitespace token is never added.
RECURSIVE BuildCumulative_NoWhitespace(_, _, _)
BuildCumulative_NoWhitespace(t, ws, acc) ==
    IF t = <<>> THEN acc
    ELSE BuildCumulative_NoWhitespace(Tail(t), ws,
                                      Append(acc, acc[Len(acc)] + Head(t)))

\* for &count in token_counts { sum += count + if combine_ws {1} else {0}; cumulative.push(sum) }
RECURSIVE BuildCumulative(_, _, _)
BuildCumulative(t, ws, acc) ==
    IF t = <<>> THEN acc
    ELSE BuildCumulative(Tail(t), ws,
                         Append(acc, acc[Len(acc)] + Head(t) + (IF ws THEN 1 ELSE 0)))

\* Mutant of BisectLeft: "<=" for "<", the insertion point after equal entries.
RECURSIVE BisectLeft_Right(_, _, _, _)
BisectLeft_Right(cum, required, lo, hi) ==
    IF lo < hi
    THEN LET mid == (lo + hi) \div 2
         IN  IF cum[mid + 1] <= required
             THEN BisectLeft_Right(cum, required, mid + 1, hi)
             ELSE BisectLeft_Right(cum, required, lo, mid)
    ELSE lo

\* The binary search of the loop body; cum is 0-indexed in the code, cum[i] is
\* cumulative[i + 1] here.
RECURSIVE BisectLeft(_, _, _, _)
BisectLeft(cum, required, lo, hi) ==
    IF lo < hi
    THEN LET mid == (lo + hi) \div 2
         IN  IF cum[mid + 1] < required
             THEN BisectLeft(cum, required, mid + 1, hi)
             ELSE BisectLeft(cum, required, lo, mid)
    ELSE lo

\* usize::saturating_sub
SaturatingSub(a, b) == IF a >= b THEN a - b ELSE 0

\* Mutants of MergeIndex: the insertion point itself (no "- 1"); no bump of an
\* index equal to current_index; "- 2" for "- 1".
MergeIndex_NoMinusOne(lo, cur, len) ==
    LET index == Min(lo, len)
    IN  IF index = cur THEN index + 1 ELSE index

MergeIndex_NoBump(lo, cur, len) == Min(SaturatingSub(lo, 1), len)

MergeIndex_MinusTwo(lo, cur, len) ==
    LET index == Min(SaturatingSub(lo, 2), len)
    IN  IF index = cur THEN index + 1 ELSE index

\* let mut index = lo.saturating_sub(1); index = index.min(len);
\* if index == current_index { index += 1 }
MergeIndex(lo, cur, len) ==
    LET index == Min(SaturatingSub(lo, 1), len)
    IN  IF index = cur THEN index + 1 ELSE index

\* No Chunker object exists while merge_splits is explored.
ChunkerIdle ==
    /\ ctor = None
    /\ inner = None
    /\ op = "idle"
    /\ ret = None
    /\ rewound = FALSE

\* No split call is under way while another part is explored.
SplitIdle ==
    /\ split_call = None
    /\ split_ret = [kind |-> "idle", offsets |-> <<>>]

MergeInit ==
    /\ ChunkerIdle
    /\ SplitIdle
    /\ token_counts \in TokenSeqs
    /\ chunk_size \in 0..MaxChunk
    /\ combine_ws \in BOOLEAN
    /\ cumulative = <<>>
    /\ result = <<>>
    /\ current_index = 0
    /\ pc = "call"

\* merge_splits up to the loop: the early return on an empty input, the prefix sums.
MergeEnter ==
    /\ pc = "call"
    /\ IF token_counts = <<>>
       THEN /\ pc' = "done"
            /\ UNCHANGED cumulative
       ELSE /\ cumulative' = BuildCumulative(token_counts, combine_ws, <<0>>)
            /\ pc' = "loop"
    /\ UNCHANGED <<token_counts, chunk_size, combine_ws, result, current_index>>
    /\ UNCHANGED <<chunkerVars, splitVars>>

\* One iteration of `while current_index < token_counts.len()`.  The subtraction
\* that computes chunk_tokens is a usize subtraction: when it underflows, a build
\* with overflow checks panics and a build without them wraps.  A wrapped value
\* 2^w - d is written -d (the two's-complement reading of the same bits; every
\* other value of the model is far below 2^31).
MergeIterate ==
    /\ pc = "loop"
    /\ current_index < Len(token_counts)
    /\ Len(result) < 2 * (Len(token_counts) + MaxPairs)
    /\ LET len == Len(token_counts)
           current_token_count == cumulative[current_index + 1]
           required_token_count == current_token_count + chunk_size
           lo == BisectLeft(cumulative, required_token_count, current_index,
                            Len(cumulative))
           index == MergeIndex(lo, current_index, len)
           minuend == cumulative[Min(index, len) + 1]
           chunk_tokens == minuend - current_token_count
           pushed ==
               /\ result' = result \o <<index, chunk_tokens>>
               /\ current_index' = index
               /\ pc' = IF index < len THEN "loop" ELSE "done"
           panicked ==
               /\ pc' = "panic"
               /\ UNCHANGED <<result, current_index>>
       IN  IF minuend >= current_token_count
           THEN pushed
           ELSE pushed \/ panicked
    /\ UNCHANGED <<token_counts, chunk_size, combine_ws, cumulative>>
    /\ UNCHANGED <<chunkerVars, splitVars>>

MergeNext == MergeEnter \/ MergeIterate

Init == MergeInit
Next == MergeNext
Spec == Init /\ [][Next]_vars
\* merge_splits is a synchronous function: once called it runs to its return.
FairSpec == Spec /\ WF_vars(Next)

(***************************************************************************)
(* Part I, properties                                                      *)
(***************************************************************************)

\* Readers of the flat result [end_1, tokens_1, end_2, tokens_2, ...].
NPairs == Len(result) \div 2
EndOf(k) == result[2 * k - 1]
TokensOf(k) == result[2 * k]
StartOf(k) == IF k = 1 THEN 0 ELSE result[2 * k - 3]
\* The cost of segment i (0-indexed): its token count plus the whitespace surcharge.
Cost(i) == token_counts[i + 1] + (IF combine_ws THEN 1 ELSE 0)

\* C1: merge_splits([1,1,1,1,1,1,1], 3, false) returns [3,3,6,3,7,1]: three
\* segments whose costs sum to exactly chunk_size are packed into one chunk.
C1_DocExample ==
    (pc = "done" /\ token_counts = DocTokenCounts /\ chunk_size = DocChunkSize
        /\ ~combine_ws)
    => result = DocResult

\* C2: with chunk_size > 0 every emitted chunk has a reported token count of at
\* most chunk_size or holds exactly one segment, and a chunk over chunk_size is a
\* single segment whose own cost is at least chunk_size.
C2_Budget ==
    chunk_size > 0 =>
        \A k \in 1..NPairs :
            /\ TokensOf(k) <= chunk_size \/ EndOf(k) - StartOf(k) = 1
            /\ TokensOf(k) > chunk_size =>
                   /\ EndOf(k) - StartOf(k) = 1
                   /\ Cost(StartOf(k)) >= chunk_size

C2_Witness ==
    /\ pc = "done"
    /\ chunk_size > 0
    /\ \E k \in 1..NPairs : TokensOf(k) > chunk_size
    /\ \E k \in 1..NPairs : EndOf(k) - StartOf(k) >= 2

\* C3: with chunk_size > 0 the emitted end indices are strictly increasing and lie
\* in [1, M]; on return the last one is M, every segment index 0..M-1 is in exactly
\* one chunk [start, end), and an empty input gives an empty result.
C3_Partition ==
    chunk_size > 0 =>
        LET M == Len(token_counts)
        IN  /\ \A k \in 1..NPairs : EndOf(k) \in 1..M /\ StartOf(k) < EndOf(k)
            /\ pc = "done" =>
                   /\ M = 0 => result = <<>>
                   /\ M > 0 => NPairs >= 1 /\ EndOf(NPairs) = M
                   /\ \A i \in 0..(M - 1) :
                          Cardinality({k \in 1..NPairs :
                                          StartOf(k) <= i /\ i < EndOf(k)}) = 1

C3_Witness ==
    /\ pc = "done"
    /\ chunk_size > 0
    /\ Len(token_counts) >= 3
    /\ NPairs >= 2
    /\ EndOf(NPairs) = Len(token_counts)

\* C4: with chunk_size > 0 every iteration of the loop raises current_index by at
\* least one, and the call returns, with current_index = token_counts.len().
C4_Terminates ==
    /\ [][(chunk_size > 0 /\ pc = "loop") => current_index' >= current_index + 1]_vars
    /\ (chunk_size > 0) ~> (pc = "done" /\ current_index = Len(token_counts))

C4_Witness ==
    /\ pc = "done"
    /\ chunk_size > 0
    /\ NPairs >= 3
    /\ current_index = Len(token_counts)

\* C5: a call with chunk_size = 0 is rejected with a value error before the
\* planning loop is entered and leaves no partial result (stated for a non-empty
\* input, the one for which the loop is at stake).
C5_ZeroRejected ==
    (chunk_size = 0 /\ token_counts # <<>> /\ pc # "call")
    => (pc = "value_error" /\ result = <<>>)

\* The token counts of segments a .. b - 1 (0-indexed) added up, and the reported
\* counts of chunks 1 .. k added up.
RECURSIVE SumTokens(_, _)
SumTokens(a, b) == IF a >= b THEN 0 ELSE token_counts[a + 1] + SumTokens(a + 1, b)

RECURSIVE SumReported(_)
SumReported(k) == IF k = 0 THEN 0 ELSE TokensOf(k) + SumReported(k - 1)

MaxText == 4        \* longest text
MaxSize == 3        \* largest explicit target size

DEFAULT_TARGET_SIZE == 4096
\* "\n.?"
DEFAULT_DELIMITERS == <<10, 46, 63>>

\* The bytes of the explored texts: 'a' and '.'.
Alphabet == {97, 46}
Texts == SeqsUpTo(Alphabet, MaxText)
\* delimiters arguments: "", "a"; pattern arguments: ".", "..", "a."
DelimiterArgs == {<<>>, <<97>>}
PatternArgs == {<<46>>, <<46, 46>>, <<97, 46>>}
OptBool == {None, Some(TRUE)}

\* ---- OwnedChunker: the builder

OwnedChunkerNew(text) ==
    [text |-> text, target_size |-> DEFAULT_TARGET_SIZE,
     delimiters |-> DEFAULT_DELIMITERS, pattern |-> None,
     prefix |-> FALSE, consecutive |-> FALSE, forward_fallback |-> FALSE,
     cursor |-> 0]

WithSize(c, size) == [c EXCEPT !.target_size = size]
WithDelimiters(c, d) == [c EXCEPT !.delimiters = d]
WithPattern(c, pat) == [c EXCEPT !.pattern = Some(pat)]
WithPrefix(c, on) == IF on THEN [c EXCEPT !.prefix = TRUE] ELSE c
WithConsecutive(c, on) == IF on THEN [c EXCEPT !.consecutive = TRUE] ELSE c
WithForwardFallback(c, on) == IF on THEN [c EXCEPT !.forward_fallback = TRUE] ELSE c

\* ---- OwnedChunker: matching

\* The length of a match: the pattern's, or 1 for a delimiter byte.  A configured
\* pattern wins over the delimiter set.
MatchLen(c) == IF c.pattern # None THEN Len(c.pattern[1]) ELSE 1

IsDelimiter(c, b) == \E i \in 1..Len(c.delimiters) : c.delimiters[i] = b

\* A match starts at offset p.
IsMatchAt(c, p) ==
    /\ p >= 0
    /\ p + MatchLen(c) <= Len(c.text)
    /\ IF c.pattern # None
       THEN \A i \in 1..MatchLen(c) : c.text[p + i] = c.pattern[1][i]
       ELSE IsDelimiter(c, c.text[p + 1])

\* Mutant of WindowMatches: a match that starts in the window counts even when it
\* ends past it.
WindowMatches_Straddling(c, lo, hi) == {p \in lo..(hi - 1) : IsMatchAt(c, p)}

\* The matches of the window [lo, hi).
WindowMatches(c, lo, hi) ==
    {p \in lo..(hi - 1) : p + MatchLen(c) <= hi /\ IsMatchAt(c, p)}

SetMax(S) == CHOOSE x \in S : \A y \in S : y <= x
SetMin(S) == CHOOSE x \in S : \A y \in S : x <= y

\* The start of the run of adjacent matches that ends with the match at p, walking
\* left one match length at a time, not past lo.
RECURSIVE RunStart(_, _, _)
RunStart(c, p, lo) ==
    IF p - MatchLen(c) >= lo /\ IsMatchAt(c, p - MatchLen(c))
    THEN RunStart(c, p - MatchLen(c), lo)
    ELSE p

\* Step 3 of next_chunk: the cut selected for the window [cursor, end), end < N.
SelectedCut(c, end) ==
    LET l == MatchLen(c)
        M == WindowMatches(c, c.cursor, end)
    IN  IF M # {}
        THEN LET p == SetMax(M)
             IN  IF ~c.consecutive
                 THEN (IF c.prefix THEN p ELSE p + l)
                 ELSE LET run_start == RunStart(c, p, c.cursor)
                          k == ((p - run_start) \div l) + 1
                      IN  IF c.prefix THEN run_start ELSE run_start + k * l
        ELSE IF ~c.forward_fallback
             THEN end
             ELSE LET F == {p \in end..(Len(c.text) - 1) : IsMatchAt(c, p)}
                  IN  IF F = {} THEN Len(c.text)
                      ELSE IF c.prefix THEN SetMin(F) ELSE SetMin(F) + l

\* Mutant of CutFrom: a selected cut equal to the cursor is used as it is.
CutFrom_NoProgress(c) ==
    LET end == Min(c.cursor + c.target_size, Len(c.text))
    IN  IF end = Len(c.text) THEN end ELSE SelectedCut(c, end)

\* Steps 1 to 3 of next_chunk for cursor < N: where the chunk that starts at the
\* cursor ends.  A selected cut equal to the cursor would make an empty chunk; the
\* chunker then advances one match length past the cursor.
CutFrom(c) ==
    LET end == Min(c.cursor + c.target_size, Len(c.text))
    IN  IF end = Len(c.text) THEN end
        ELSE LET cut == SelectedCut(c, end)
             IN  IF cut = c.cursor THEN c.cursor + MatchLen(c) ELSE cut

\* ---- OwnedChunker: the methods

\* next_chunk: None when cursor = N, else the bytes of [cursor, cut) and the
\* cursor moved to cut.
next_chunk(c) ==
    IF c.cursor >= Len(c.text)
    THEN [chunk |-> None, chunker |-> c]
    ELSE LET cut == CutFrom(c)
         IN  [chunk |-> Some(SubSeq(c.text, c.cursor + 1, cut)),
              chunker |-> [c EXCEPT !.cursor = cut]]

reset(c) == [c EXCEPT !.cursor = 0]

\* collect_offsets: drains from the current cursor, pushing (start, end).  A step
\* that would not move the cursor forward ends the drain (only a mutated CutFrom
\* makes one).
RECURSIVE CollectLoop(_, _)
CollectLoop(c, acc) ==
    IF c.cursor >= Len(c.text)
    THEN [offsets |-> acc, chunker |-> c]
    ELSE LET cut == CutFrom(c)
         IN  IF cut <= c.cursor
             THEN [offsets |-> Append(acc, <<c.cursor, cut>>), chunker |-> c]
             ELSE CollectLoop([c EXCEPT !.cursor = cut], Append(acc, <<c.cursor, cut>>))

\* Mutant of collect_offsets: it starts over from offset 0.
collect_offsets_FromZero(c) == CollectLoop(reset(c), <<>>)

collect_offsets(c) == CollectLoop(c, <<>>)

\* ---- The bindings: constructors and one-shot functions

\* python Chunker::new(text, size, delimiters, pattern, prefix, consecutive,
\* forward_fallback): the OwnedChunker it builds.
PyArgs ==
    [text : Texts, size : 1..MaxSize,
     delimiters : {None} \cup {Some(d) : d \in DelimiterArgs},
     pattern : {None} \cup {Some(q) : q \in PatternArgs},
     prefix : BOOLEAN, consecutive : BOOLEAN, forward_fallback : BOOLEAN]

\* Mutant of PyChunkerNew: delimiters, when given, are applied after the pattern
\* and replace it.
PyChunkerNew_DelimitersWin(a) ==
    LET sized == WithSize(OwnedChunkerNew(a.text), a.size)
        matched ==
            IF a.delimiters # None
            THEN WithDelimiters(sized, a.delimiters[1])
            ELSE IF a.pattern # None
                 THEN WithPattern(sized, a.pattern[1])
                 ELSE WithDelimiters(sized, DEFAULT_DELIMITERS)
    IN  WithForwardFallback(
            WithConsecutive(WithPrefix(matched, a.prefix), a.consecutive),
            a.forward_fallback)

PyChunkerNew(a) ==
    LET sized == WithSize(OwnedChunkerNew(a.text), a.size)
        matched ==
            IF a.pattern # None
            THEN WithPattern(sized, a.pattern[1])
            ELSE WithDelimiters(sized, UnwrapOr(a.delimiters, DEFAULT_DELIMITERS))
    IN  WithForwardFallback(
            WithConsecutive(WithPrefix(matched, a.prefix), a.consecutive),
            a.forward_fallback)

\* python chunk_offsets: the same configuration, then collect_offsets.
PyChunkOffsets(a) ==
    LET sized == WithSize(OwnedChunkerNew(a.text), a.size)
        matched ==
            IF a.pattern # None
            THEN WithPattern(sized, a.pattern[1])
            ELSE WithDelimiters(sized, UnwrapOr(a.delimiters, DEFAULT_DELIMITERS))
        chunker ==
            WithForwardFallback(
                WithConsecutive(WithPrefix(matched, a.prefix), a.consecutive),
                a.forward_fallback)
    IN  collect_offsets(chunker).offsets

\* wasm Chunker::new(text, size?, delimiters?, prefix?, consecutive?, forward_fallback?)
WasmNewArgs ==
    [text : Texts, size : {None} \cup {Some(n) : n \in 1..MaxSize},
     delimiters : {None} \cup {Some(d) : d \in DelimiterArgs},
     prefix : OptBool, consecutive : OptBool, forward_fallback : OptBool]

\* Mutant of WasmChunkerNew: the consecutive argument is not passed on.
WasmChunkerNew_DropsConsecutive(a) ==
    LET target_size == UnwrapOr(a.size, DEFAULT_TARGET_SIZE)
        delims == UnwrapOr(a.delimiters, DEFAULT_DELIMITERS)
        built == WithDelimiters(WithSize(OwnedChunkerNew(a.text), target_size), delims)
    IN  WithForwardFallback(WithPrefix(built, UnwrapOr(a.prefix, FALSE)),
                            UnwrapOr(a.forward_fallback, FALSE))

WasmChunkerNew(a) ==
    LET target_size == UnwrapOr(a.size, DEFAULT_TARGET_SIZE)
        delims == UnwrapOr(a.delimiters, DEFAULT_DELIMITERS)
        built == WithDelimiters(WithSize(OwnedChunkerNew(a.text), target_size), delims)
    IN  WithForwardFallback(
            WithConsecutive(WithPrefix(built, UnwrapOr(a.prefix, FALSE)),
                            UnwrapOr(a.consecutive, FALSE)),
            UnwrapOr(a.forward_fallback, FALSE))

\* wasm Chunker::with_pattern(text, size, pattern, prefix?, consecutive?, forward_fallback?)
WasmPatternArgs ==
    [text : Texts, size : 1..MaxSize, pattern : PatternArgs,
     prefix : OptBool, consecutive : OptBool, forward_fallback : OptBool]

WasmChunkerWithPattern(a) ==
    LET built == WithPattern(WithSize(OwnedChunkerNew(a.text), a.size), a.pattern)
    IN  WithForwardFallback(
            WithConsecutive(WithPrefix(built, UnwrapOr(a.prefix, FALSE)),
                            UnwrapOr(a.consecutive, FALSE)),
            UnwrapOr(a.forward_fallback, FALSE))

\* .into_iter().flat_map(|(start, end)| [start, end]).collect()
RECURSIVE FlattenOffsets(_)
FlattenOffsets(pairs) ==
    IF pairs = <<>> THEN <<>>
    ELSE <<Head(pairs)[1], Head(pairs)[2]>> \o FlattenOffsets(Tail(pairs))

\* wasm chunk_offsets and chunk_offsets_pattern
WasmChunkOffsets(a) == FlattenOffsets(collect_offsets(WasmChunkerNew(a)).offsets)
WasmChunkOffsetsPattern(a) ==
    FlattenOffsets(collect_offsets(WasmChunkerWithPattern(a)).offsets)

\* ---- The state machine of one Chunker object

ChunkerInit ==
    /\ \/ \E a \in PyArgs :
              /\ ctor = [surface |-> "py", args |-> a]
              /\ inner = PyChunkerNew(a)
       \/ \E a \in WasmNewArgs :
              /\ ctor = [surface |-> "wasm", args |-> a]
              /\ inner = WasmChunkerNew(a)
       \/ \E a \in WasmPatternArgs :
              /\ ctor = [surface |-> "wasm_pattern", args |-> a]
              /\ inner = WasmChunkerWithPattern(a)
    /\ op = "new"
    /\ ret = [kind |-> "new", val |-> None]
    /\ rewound = FALSE

\* Chunker.__next__ (python) and Chunker.next (wasm): inner.next_chunk(), the
\* chunk's bytes or None.
ChunkerNext ==
    /\ LET r == next_chunk(inner)
       IN  /\ inner' = r.chunker
           /\ ret' = [kind |-> "chunk", val |-> r.chunk]
    /\ op' = "next"
    /\ UNCHANGED <<ctor, rewound>>
    /\ UNCHANGED <<mergeVars, splitVars>>

\* Mutant of ChunkerReset: the binding returns without calling inner.reset().
ChunkerReset_NoInnerReset ==
    /\ inner' = inner
    /\ rewound' = (rewound \/ inner.cursor > 0)
    /\ op' = "reset"
    /\ ret' = [kind |-> "unit", val |-> None]
    /\ UNCHANGED ctor
    /\ UNCHANGED <<mergeVars, splitVars>>

\* Chunker.reset, both bindings: self.inner.reset().
ChunkerReset ==
    /\ inner' = reset(inner)
    /\ rewound' = (rewound \/ inner.cursor > 0)
    /\ op' = "reset"
    /\ ret' = [kind |-> "unit", val |-> None]
    /\ UNCHANGED ctor
    /\ UNCHANGED <<mergeVars, splitVars>>

\* python Chunker.collect_offsets: the list of (start, end).
PyCollectOffsets ==
    /\ ctor.surface = "py"
    /\ LET r == collect_offsets(inner)
       IN  /\ inner' = r.chunker
           /\ ret' = [kind |-> "pairs", val |-> r.offsets]
    /\ op' = "collect_offsets"
    /\ UNCHANGED <<ctor, rewound>>
    /\ UNCHANGED <<mergeVars, splitVars>>

\* wasm Chunker.collect_offsets: the flat array [start1, end1, start2, end2, ...].
WasmCollectOffsets ==
    /\ ctor.surface \in {"wasm", "wasm_pattern"}
    /\ LET r == collect_offsets(inner)
       IN  /\ inner' = r.chunker
           /\ ret' = [kind |-> "flat", val |-> FlattenOffsets(r.offsets)]
    /\ op' = "collect_offsets"
    /\ UNCHANGED <<ctor, rewound>>
    /\ UNCHANGED <<mergeVars, splitVars>>

\* The one-shot functions, called with the arguments the object was built with.
\* They build a chunker of their own and leave the object alone; the model
\* follows the call from the freshly built state.
PyChunkOffsetsCall ==
    /\ ctor.surface = "py"
    /\ op = "new"
    /\ ret' = [kind |-> "pairs", val |-> PyChunkOffsets(ctor.args)]
    /\ op' = "chunk_offsets"
    /\ UNCHANGED <<ctor, inner, rewound>>
    /\ UNCHANGED <<mergeVars, splitVars>>

WasmChunkOffsetsCall ==
    /\ ctor.surface = "wasm"
    /\ op = "new"
    /\ ret' = [kind |-> "flat", val |-> WasmChunkOffsets(ctor.args)]
    /\ op' = "chunk_offsets"
    /\ UNCHANGED <<ctor, inner, rewound>>
    /\ UNCHANGED <<mergeVars, splitVars>>

WasmChunkOffsetsPatternCall ==
    /\ ctor.surface = "wasm_pattern"
    /\ op = "new"
    /\ ret' = [kind |-> "flat", val |-> WasmChunkOffsetsPattern(ctor.args)]
    /\ op' = "chunk_offsets"
    /\ UNCHANGED <<ctor, inner, rewound>>
    /\ UNCHANGED <<mergeVars, splitVars>>

\* merge_splits is not running while the Chunker is explored.
MergeIdle ==
    /\ token_counts = <<>>
    /\ chunk_size = 0
    /\ combine_ws = FALSE
    /\ cumulative = <<>>
    /\ result = <<>>
    /\ current_index = 0
    /\ pc = "idle"

ChunkerSpecInit == MergeIdle /\ SplitIdle /\ ChunkerInit

ChunkerSpecNext ==
    \/ ChunkerNext
    \/ ChunkerReset
    \/ PyCollectOffsets
    \/ WasmCollectOffsets
    \/ PyChunkOffsetsCall
    \/ WasmChunkOffsetsCall
    \/ WasmChunkOffsetsPatternCall

ChunkerSpec == ChunkerSpecInit /\ [][ChunkerSpecNext]_vars

(***************************************************************************)
(* Part II, properties                                                     *)
(***************************************************************************)

RECURSIVE Unflatten(_)
Unflatten(flat) ==
    IF Len(flat) < 2 THEN <<>>
    ELSE <<(<<flat[1], flat[2]>>)>> \o Unflatten(SubSeq(flat, 3, Len(flat)))

\* The (start, end) pairs of a returned offset list, of either binding.
PairsOf(r) == IF r.kind = "flat" THEN Unflatten(r.val) ELSE r.val

\* q is a sequence of non-empty chunks, the first at 0, each where the one before
\* ended, the last ending at n; no chunk at all for n = 0.
IsCover(q, n) ==
    /\ n = 0 => q = <<>>
    /\ n > 0 => Len(q) >= 1 /\ q[1][1] = 0 /\ q[Len(q)][2] = n
    /\ \A i \in 1..Len(q) :
           /\ q[i][1] < q[i][2]
           /\ i < Len(q) => q[i][2] = q[i + 1][1]

\* C7: a python Chunker (or chunk_offsets call) given a pattern emits the offsets
\* of the same call without delimiters, whatever delimiters it was given.
C7_PatternPrecedence ==
    (ctor.surface = "py" /\ ctor.args.pattern # None) =>
        LET without == [ctor.args EXCEPT !.delimiters = None]
        IN  /\ collect_offsets(reset(inner)).offsets
                   = collect_offsets(PyChunkerNew(without)).offsets
            /\ op = "chunk_offsets" => ret.val = PyChunkOffsets(without)

\* Both were given, the delimiters alone would have cut elsewhere, and the offsets
\* have been handed out.
C7_Witness ==
    /\ ctor.surface = "py"
    /\ ctor.args.pattern # None
    /\ ctor.args.delimiters # None
    /\ op = "chunk_offsets"
    /\ Len(ret.val) >= 2
    /\ ret.val # PyChunkOffsets([ctor.args EXCEPT !.pattern = None])

\* C8: every next call that returns a chunk returns the non-empty bytes from the
\* old cursor to a strictly greater new one, and returns None only at the end of
\* the text; a drain from cursor 0 (collect_offsets, chunk_offsets) is a sequence
\* of non-empty chunks that starts at 0, is contiguous and ends at N.
C8_Coverage ==
    [][/\ (op' = "next" /\ ret'.val # None) =>
              /\ inner'.cursor > inner.cursor
              /\ ret'.val[1] = SubSeq(inner.text, inner.cursor + 1, inner'.cursor)
       /\ (op' = "next" /\ ret'.val = None) => inner.cursor = Len(inner.text)
       /\ (op' = "collect_offsets" /\ inner.cursor = 0) =>
              IsCover(PairsOf(ret'), Len(inner.text))
       /\ op' = "chunk_offsets" => IsCover(PairsOf(ret'), Len(inner.text))
      ]_vars

\* A drain with prefix = true in which the cut selected for some chunk was the
\* chunk's own start (the only match of its window is at the cursor).
C8_Witness ==
    /\ op = "collect_offsets"
    /\ inner.prefix
    /\ inner.target_size >= 2
    /\ \E i \in 1..Len(PairsOf(ret)) :
           LET start == PairsOf(ret)[i][1]
               from == [inner EXCEPT !.cursor = start]
           IN  /\ start + inner.target_size < Len(inner.text)
               /\ SelectedCut(from, start + inner.target_size) = start
               /\ PairsOf(ret)[i][2] > start

\* C9: with forward_fallback = false no emitted chunk is longer than the target
\* size.
C9_SizeBound ==
    (op # "idle" /\ ~inner.forward_fallback) =>
        /\ (op = "next" /\ ret.val # None) => Len(ret.val[1]) <= inner.target_size
        /\ op \in {"collect_offsets", "chunk_offsets"} =>
               \A i \in 1..Len(PairsOf(ret)) :
                   PairsOf(ret)[i][2] - PairsOf(ret)[i][1] <= inner.target_size

\* A chunk was emitted whose window [start, start + S) holds the first byte of a
\* two-byte match that ends past the window.
C9_Witness ==
    /\ op = "collect_offsets"
    /\ ~inner.forward_fallback
    /\ inner.pattern # None
    /\ MatchLen(inner) = 2
    /\ inner.target_size >= 2
    /\ \E i \in 1..Len(PairsOf(ret)) :
           LET start == PairsOf(ret)[i][1]
           IN  /\ start + inner.target_size < Len(inner.text)
               /\ IsMatchAt(inner, start + inner.target_size - 1)

\* q is what repeated next calls produce from the state c: a chain of single
\* next_chunk steps from c's cursor to the end of the text.
IsDrainOf(q, c) ==
    /\ c.cursor >= Len(c.text) => q = <<>>
    /\ c.cursor < Len(c.text) =>
           Len(q) >= 1 /\ q[1][1] = c.cursor /\ q[Len(q)][2] = Len(c.text)
    /\ \A i \in 1..Len(q) :
           /\ next_chunk([c EXCEPT !.cursor = q[i][1]]).chunker.cursor = q[i][2]
           /\ i < Len(q) => q[i + 1][1] = q[i][2]

\* C10: in every reachable state collect_offsets returns the offsets repeated next
\* calls would produce from the cursor and leaves cursor = N; from then on next
\* returns None, collect_offsets returns an empty list and the cursor stays at N
\* until reset is called.
C10_CollectDrains ==
    [][/\ op' = "collect_offsets" =>
              /\ inner'.cursor = Len(inner.text)
              /\ IsDrainOf(PairsOf(ret'), inner)
       /\ (inner.cursor = Len(inner.text) /\ op' = "next") => ret'.val = None
       /\ (inner.cursor = Len(inner.text) /\ op' = "collect_offsets") =>
              ret'.val = <<>>
       /\ (inner.cursor = Len(inner.text) /\ op' # "reset") =>
              inner'.cursor = Len(inner.text)
      ]_vars

\* collect_offsets was called part-way through an iteration and returned two
\* chunks or more.
C10_Witness ==
    /\ op = "collect_offsets"
    /\ Len(PairsOf(ret)) >= 2
    /\ PairsOf(ret)[1][1] > 0
    /\ inner.cursor = Len(inner.text)

\* The chunker the constructor call built, as it was right after construction.
FreshChunker ==
    IF ctor.surface = "py" THEN PyChunkerNew(ctor.args)
    ELSE IF ctor.surface = "wasm" THEN WasmChunkerNew(ctor.args)
    ELSE WasmChunkerWithPattern(ctor.args)

\* C11: a reset call changes the cursor, to 0, and no other field of the chunker;
\* no call changes any field but the cursor; after any sequence of next, reset and
\* collect_offsets calls, a collect_offsets call that follows a reset returns the
\* offset list of a freshly constructed chunker (so reset; collect_offsets gives
\* that same list every time it is repeated).
C11_ResetIdempotent ==
    [][/\ op' = "reset" => inner' = [inner EXCEPT !.cursor = 0]
       /\ [inner' EXCEPT !.cursor = 0] = [inner EXCEPT !.cursor = 0]
       /\ (op = "reset" /\ op' = "collect_offsets") =>
              PairsOf(ret') = collect_offsets(FreshChunker).offsets
      ]_vars

\* reset found the chunker part-way or drained, and the collect_offsets call made
\* right after it has returned two chunks or more, the first from offset 0.
C11_Witness ==
    /\ rewound
    /\ op = "collect_offsets"
    /\ Len(PairsOf(ret)) >= 2
    /\ PairsOf(ret)[1][1] = 0
    /\ PairsOf(ret) = collect_offsets(FreshChunker).offsets

\* The consecutive option the constructor call asked for.
ConsecutiveRequested ==
    IF ctor.surface = "py" THEN ctor.args.consecutive
    ELSE UnwrapOr(ctor.args.consecutive, FALSE)

\* The maximal run of adjacent matches that holds the match at p: its first match
\* and the offset just after its last one, wherever the window and the cursor are.
MaxRunStart(c, p) == RunStart(c, p, 0)

RECURSIVE MaxRunEnd(_, _)
MaxRunEnd(c, p) ==
    IF IsMatchAt(c, p + MatchLen(c)) THEN MaxRunEnd(c, p + MatchLen(c))
    ELSE p + MatchLen(c)

\* The chunk the last next call returned: where it starts (it ends at the cursor),
\* the tentative end of its window, the matches of the window and, with
\* forward_fallback, the matches from the tentative end on.
LastStart == inner.cursor - Len(ret.val[1])
LastEnd == LastStart + inner.target_size
LastWindow == WindowMatches(inner, LastStart, LastEnd)
LastForward ==
    IF inner.forward_fallback
    THEN {p \in LastEnd..(Len(inner.text) - 1) : IsMatchAt(inner, p)}
    ELSE {}
\* The match the cut was chosen from: the latest of the window, else the first one
\* found forward.
LastAnchor == IF LastWindow # {} THEN SetMax(LastWindow) ELSE SetMin(LastForward)

MaxMinChars == 2    \* largest min_chars

\* include_delim arguments: the three policies and two strings that are none of
\* them.
IncludeArgs == {"prev", "next", "none", "both", "Prev"}
\* patterns arguments of split_pattern_offsets and PatternSplitter
PatternListArgs == {<< <<46>> >>, << <<46>>, <<46, 46>> >>, << <<97, 46>> >>}

\* The text and the delimiters of the documented example: b"Hello. World. Test."
\* and b".".
DocText == <<72, 101, 108, 108, 111, 46, 32, 87, 111, 114, 108, 100, 46, 32, 84,
             101, 115, 116, 46>>
DocDelimiters == <<46>>

\* ---- The core splitter

\* q occurs in text at offset p.
OccursAt(text, q, p) ==
    /\ p + Len(q) <= Len(text)
    /\ \A i \in 1..Len(q) : text[p + i] = q[i]

\* The match list (p, l): left to right, the longest pattern at a position, the
\* scan resuming after each match.
RECURSIVE ScanMatches(_, _, _)
ScanMatches(text, pats, pos) ==
    IF pos >= Len(text) THEN <<>>
    ELSE LET lens == {Len(pats[j]) : j \in {j \in 1..Len(pats) :
                                              OccursAt(text, pats[j], pos)}}
         IN  IF lens = {}
             THEN ScanMatches(text, pats, pos + 1)
             ELSE <<(<<pos, SetMax(lens)>>)>>
                      \o ScanMatches(text, pats, pos + SetMax(lens))

\* The segments between consecutive boundaries, zero-length ones dropped.
RECURSIVE SegmentsBetween(_, _)
SegmentsBetween(from, bounds) ==
    IF bounds = <<>> THEN <<>>
    ELSE IF Head(bounds) > from
         THEN <<(<<from, Head(bounds)>>)>> \o SegmentsBetween(Head(bounds), Tail(bounds))
         ELSE SegmentsBetween(from, Tail(bounds))

\* IncludeDelim::None: the gaps between the matches, zero-length ones dropped.
RECURSIVE Gaps(_, _, _)
Gaps(from, matches, n) ==
    IF matches = <<>>
    THEN (IF n > from THEN <<(<<from, n>>)>> ELSE <<>>)
    ELSE LET m == Head(matches)
         IN  (IF m[1] > from THEN <<(<<from, m[1]>>)>> ELSE <<>>)
                 \o Gaps(m[1] + m[2], Tail(matches), n)

\* Steps 2 and 3: the segments of a match list under an attachment policy.
SegmentsOf(matches, include, n) ==
    IF include = "None"
    THEN Gaps(0, matches, n)
    ELSE LET bounds == [i \in 1..Len(matches) |->
                           IF include = "Prev"
                           THEN matches[i][1] + matches[i][2]
                           ELSE matches[i][1]]
         IN  SegmentsBetween(0, Append(bounds, n))

\* Step 4, the minimum-length merge: an accumulator shorter than min_chars
\* absorbs the next segment; a last accumulator still short joins its predecessor.
RECURSIVE MergeShort(_, _, _, _)
MergeShort(out, acc, rest, min_chars) ==
    IF rest = <<>>
    THEN IF acc[2] - acc[1] < min_chars /\ out # <<>>
         THEN SubSeq(out, 1, Len(out) - 1) \o <<(<<out[Len(out)][1], acc[2]>>)>>
         ELSE Append(out, acc)
    ELSE IF acc[2] - acc[1] < min_chars
         THEN MergeShort(out, <<acc[1], Head(rest)[2]>>, Tail(rest), min_chars)
         ELSE MergeShort(Append(out, acc), Head(rest), Tail(rest), min_chars)

split_at_patterns(text, pats, include, min_chars) ==
    LET segs == SegmentsOf(ScanMatches(text, pats, 0), include, Len(text))
    IN  IF segs = <<>> THEN <<>>
        ELSE MergeShort(<<>>, Head(segs), Tail(segs), min_chars)

\* Single-byte delimiters are patterns of length 1.
split_at_delimiters(text, delims, include, min_chars) ==
    split_at_patterns(text, [i \in 1..Len(delims) |-> <<delims[i]>>], include,
                      min_chars)

\* ---- The bindings

\* Mutant of PyParseIncludeDelim: the arms of "prev" and "next" are swapped.
PyParseIncludeDelim_Swapped(include_delim) ==
    IF include_delim = "prev" THEN Some("Next")
    ELSE IF include_delim = "next" THEN Some("Prev")
    ELSE IF include_delim = "none" THEN Some("None")
    ELSE None

\* python: match include_delim { "prev" => .., "next" => .., "none" => ..,
\* _ => return Err(PyValueError) }; None stands for the error.
PyParseIncludeDelim(include_delim) ==
    IF include_delim = "prev" THEN Some("Prev")
    ELSE IF include_delim = "next" THEN Some("Next")
    ELSE IF include_delim = "none" THEN Some("None")
    ELSE None

\* wasm: match include_delim.as_deref() { Some("next") => Next,
\* Some("none") => None, _ => Prev }
WasmParseIncludeDelim(include_delim) ==
    IF include_delim = Some("next") THEN "Next"
    ELSE IF include_delim = Some("none") THEN "None"
    ELSE "Prev"

SplitCalls ==
    [surface : {"py.split_offsets"}, text : Texts,
     delimiters : {None} \cup {Some(d) : d \in DelimiterArgs},
     include_delim : IncludeArgs, min_chars : 0..MaxMinChars]
    \cup
    [surface : {"py.split_pattern_offsets", "py.PatternSplitter.split"},
     text : Texts, patterns : PatternListArgs,
     include_delim : IncludeArgs, min_chars : 0..MaxMinChars]
    \cup
    [surface : {"wasm.split_offsets"}, text : Texts,
     delimiters : {None} \cup {Some(d) : d \in DelimiterArgs},
     include_delim : {None} \cup {Some(x) : x \in IncludeArgs},
     min_chars : {None} \cup {Some(n) : n \in 0..MaxMinChars}]
    \cup
    \* the documented example, on both split_offsets surfaces
    [surface : {"py.split_offsets"}, text : {DocText},
     delimiters : {Some(DocDelimiters)},
     include_delim : {"prev", "next"}, min_chars : {0}]
    \cup
    [surface : {"wasm.split_offsets"}, text : {DocText},
     delimiters : {Some(DocDelimiters)},
     include_delim : {None, Some("prev"), Some("next")},
     min_chars : {None, Some(0)}]

SplitInit ==
    /\ split_call \in SplitCalls
    /\ split_ret = [kind |-> "pending", offsets |-> <<>>]

ValueError == [kind |-> "ValueError", offsets |-> <<>>]
Ok(offsets) == [kind |-> "ok", offsets |-> offsets]

\* python split_offsets
PySplitOffsets ==
    /\ split_call.surface = "py.split_offsets"
    /\ split_ret.kind = "pending"
    /\ LET delims == UnwrapOr(split_call.delimiters, DEFAULT_DELIMITERS)
           include == PyParseIncludeDelim(split_call.include_delim)
       IN  split_ret' =
               IF include = None THEN ValueError
               ELSE Ok(split_at_delimiters(split_call.text, delims, include[1],
                                           split_call.min_chars))
    /\ UNCHANGED <<split_call, mergeVars, chunkerVars>>

\* python split_pattern_offsets
PySplitPatternOffsets ==
    /\ split_call.surface = "py.split_pattern_offsets"
    /\ split_ret.kind = "pending"
    /\ LET include == PyParseIncludeDelim(split_call.include_delim)
       IN  split_ret' =
               IF include = None THEN ValueError
               ELSE Ok(split_at_patterns(split_call.text, split_call.patterns,
                                         include[1], split_call.min_chars))
    /\ UNCHANGED <<split_call, mergeVars, chunkerVars>>

\* python PatternSplitter(patterns).split
PyPatternSplitterSplit ==
    /\ split_call.surface = "py.PatternSplitter.split"
    /\ split_ret.kind = "pending"
    /\ LET include == PyParseIncludeDelim(split_call.include_delim)
       IN  split_ret' =
               IF include = None THEN ValueError
               ELSE Ok(split_at_patterns(split_call.text, split_call.patterns,
                                         include[1], split_call.min_chars))
    /\ UNCHANGED <<split_call, mergeVars, chunkerVars>>

\* wasm split_offsets: the flat array
WasmSplitOffsets ==
    /\ split_call.surface = "wasm.split_offsets"
    /\ split_ret.kind = "pending"
    /\ LET delims == UnwrapOr(split_call.delimiters, DEFAULT_DELIMITERS)
           include == WasmParseIncludeDelim(split_call.include_delim)
           min == UnwrapOr(split_call.min_chars, 0)
       IN  split_ret' =
               Ok(FlattenOffsets(split_at_delimiters(split_call.text, delims,
                                                     include, min)))
    /\ UNCHANGED <<split_call, mergeVars, chunkerVars>>

SplitSpecInit == MergeIdle /\ ChunkerIdle /\ SplitInit

SplitSpecNext ==
    \/ PySplitOffsets
    \/ PySplitPatternOffsets
    \/ PyPatternSplitterSplit
    \/ WasmSplitOffsets

SplitSpec == SplitSpecInit /\ [][SplitSpecNext]_vars

(***************************************************************************)
(* Part III, properties                                                    *)
(***************************************************************************)

\* The call was given an include_delim that is none of "prev", "next", "none".
UnknownIncludeDelim ==
    IF split_call.surface = "wasm.split_offsets"
    THEN /\ split_call.include_delim # None
         /\ split_call.include_delim[1] \notin {"prev", "next", "none"}
    ELSE split_call.include_delim \notin {"prev", "next", "none"}

\* C6: on every split surface a call with an include_delim other than "prev",
\* "next" or "none" ends in a value error and returns no offsets.
C6_UnknownPolicyRejected ==
    (split_ret.kind \notin {"idle", "pending"} /\ UnknownIncludeDelim)
    => split_ret = ValueError

\* One call of split_offsets, of either binding: the policy it was called with
\* ("prev" when wasm is given none), its min_chars, its delimiters, and the
\* (start, end) pairs it returned.
IsSplitOffsets == split_call.surface \in {"py.split_offsets", "wasm.split_offsets"}
PolicyArg ==
    IF split_call.surface = "wasm.split_offsets"
    THEN UnwrapOr(split_call.include_delim, "prev")
    ELSE split_call.include_delim
MinCharsArg ==
    IF split_call.surface = "wasm.split_offsets"
    THEN UnwrapOr(split_call.min_chars, 0)
    ELSE split_call.min_chars
DelimitersArg == UnwrapOr(split_call.delimiters, DEFAULT_DELIMITERS)
SplitPairs ==
    IF split_call.surface = "wasm.split_offsets"
    THEN Unflatten(split_ret.offsets)
    ELSE split_ret.offsets
\* The byte at offset p (0-based) of the text is one of the delimiters.
DelimiterAt(p) ==
    /\ p >= 0 /\ p < Len(split_call.text)
    /\ \E i \in 1..Len(DelimitersArg) : DelimitersArg[i] = split_call.text[p + 1]

\* C13: split_offsets with min_chars = 0 and include_delim "prev" or "next" returns
\* non-empty, contiguous segments that cover [0, N); with "prev" every boundary
\* between two segments lies right after a delimiter, with "next" right before one,
\* and a delimiter at offset 0 makes no empty first segment; "Hello. World. Test."
\* with delimiter "." gives [(0,6),(6,13),(13,19)] for "prev" and
\* [(0,5),(5,12),(12,18),(18,19)] for "next".
C13_SplitCoverage ==
    (/\ IsSplitOffsets
     /\ split_ret.kind = "ok"
     /\ MinCharsArg = 0
     /\ PolicyArg \in {"prev", "next"})
    => LET q == SplitPairs
       IN  /\ IsCover(q, Len(split_call.text))
           /\ \A i \in 1..(Len(q) - 1) :
                  IF PolicyArg = "prev" THEN DelimiterAt(q[i][2] - 1)
                  ELSE DelimiterAt(q[i][2])
           /\ (split_call.text = DocText /\ DelimitersArg = DocDelimiters) =>
                  q = IF PolicyArg = "prev"
                      THEN << <<0, 6>>, <<6, 13>>, <<13, 19>> >>
                      ELSE << <<0, 5>>, <<5, 12>>, <<12, 18>>, <<18, 19>> >>

\* split_offsets returned for a text that starts with a delimiter and has another
\* one further on, under "next".
C13_Witness ==
    /\ IsSplitOffsets
    /\ split_ret.kind = "ok"
    /\ MinCharsArg = 0
    /\ PolicyArg = "next"
    /\ DelimiterAt(0)
    /\ Len(SplitPairs) >= 2
    /\ SplitPairs[1][1] = 0

====
